---- MODULE Spec2Model ----
(***************************************************************************)
(* The create-subtraction workflow of src/workflow.py: two startup hooks   *)
(* (clean_up, check_db), five steps (make_subtraction_dir, unpack,         *)
(* set_stats, bowtie_build, compress) and the cleanup handler              *)
(* delete_subtraction that clean_up binds to on_cancelled and on_failure.  *)
(*                                                                         *)
(* The filesystem is a function from paths to the kind of content stored   *)
(* there, the database a function from _id to the subtraction document.    *)
(* Every awaited call is one atomic action with three outcomes: it         *)
(* returns, it raises (the step fails, leaving any partial effect), or the *)
(* job is cancelled while it is suspended (the call is interrupted or is   *)
(* allowed to finish, and no later step starts).                           *)
(***************************************************************************)
EXTENDS Integers, Sequences, FiniteSets, TLC

\* ---------------------------------------------------------------- bounds
MaxIdLen == 2

\* characters a user-supplied subtraction id is drawn from
IdChars == {"A", "a", " ", "_"}

Ids == UNION {[1..n -> IdChars] : n \in 1..MaxIdLen}

FileId == <<"f">>

VARIABLES
  pc,          \* position of the job: a startup hook, an await of a step, cleaning_up, terminated
  status,      \* Pending, Running, Succeeded, Failed, Cancelled
  hooks,       \* the hooks delete_subtraction has been bound to
  job_params,  \* the job's key/value bag
  fs,          \* path -> kind of content
  db,          \* _id -> subtraction document
  started,     \* steps started so far, in order
  completed,   \* steps that returned, in order
  cleanupRuns, \* number of invocations of delete_subtraction
  cleanupErr,  \* what the last invocation of delete_subtraction raised
  bowtieExit,  \* none, ok, fail: how bowtie2-build exited
  everReady    \* a document with ready=true has been visible at some point

vars == <<pc, status, hooks, job_params, fs, db, started, completed,
          cleanupRuns, cleanupErr, bowtieExit, everReady>>

\* ------------------------------------------------------------- paths
\* os.path.join(root, sub, id) and os.path.join(dir, name)
Path(root, sub, id, name) == [root |-> root, sub |-> sub, id |-> id, name |-> name]

Join(dir, name) == [dir EXCEPT !.name = name]

\* the entries of fs at or below directory d
Tree(f, d) == {p \in DOMAIN f : p.root = d.root /\ p.sub = d.sub /\ p.id = d.id}

Children(f, d) == {p \in Tree(f, d) : p.name # ""}

Remove(f, ps) == [p \in (DOMAIN f) \ ps |-> f[p]]

\* str.replace(" ", "_").lower() on one character and on an id
NormChar(c) == IF c = " " THEN "_" ELSE IF c = "A" THEN "a" ELSE c

Normalize(id) == [i \in 1..Len(id) |-> NormChar(id[i])]

\* ------------------------------------------------- filesystem and database
Write(f, p, kind) == (p :> kind) @@ f

\* os.makedirs(path, exist_ok=True)
makedirs(f, d) == IF d \in DOMAIN f THEN f ELSE Write(f, d, "dir")

\* a removal that reports success and removes nothing
rm_nothing(f, p, recursive, fault) == [fs |-> f, err |-> "none"]

\* virtool_core.utils.rm(path, recursive): os.remove, and shutil.rmtree for a
\* directory when recursive; fault is an OS-level failure of the removal
\* other than the target being absent
rm(f, p, recursive, fault) ==
  IF p \notin DOMAIN f THEN [fs |-> f, err |-> "FileNotFoundError"]
  ELSE IF f[p] = "dir" /\ ~recursive THEN [fs |-> f, err |-> "IsADirectoryError"]
  ELSE IF fault THEN [fs |-> f, err |-> "OSError"]
  ELSE IF f[p] = "dir" THEN [fs |-> Remove(f, Tree(f, p)), err |-> "none"]
  ELSE [fs |-> Remove(f, {p}), err |-> "none"]

\* shutil.copytree(src, dst) having copied the children S of src so far
CopyInto(f, src, dst, S) ==
  LET new == {dst} \cup {Join(dst, p.name) : p \in S}
  IN  [q \in (DOMAIN f) \cup new |->
         IF q = dst THEN "dir"
         ELSE IF q \in new THEN f[Join(src, q.name)]
         ELSE f[q]]

copytree(f, src, dst) == CopyInto(f, src, dst, Children(f, src))

\* db.subtraction.update_one({"_id": id}, {"$set": fields}): no upsert
update_one(d, id, fields) ==
  IF id \in DOMAIN d THEN [d EXCEPT ![id] = fields @@ d[id]] ELSE d

\* db.subtraction.delete_one({"_id": id})
delete_one(d, id) == [i \in (DOMAIN d) \ {id} |-> d[i]]

IsReady(d) == \E i \in DOMAIN d : d[i].ready

\* ------------------------------------------------------------ the workflow
\* the declaration order with unpack and set_stats exchanged
Steps_swapped == <<"make_subtraction_dir", "set_stats", "unpack", "bowtie_build", "compress">>

\* the @step functions in the order they are declared
Steps == <<"make_subtraction_dir", "unpack", "set_stats", "bowtie_build", "compress">>

StepIndex(s) == CHOOSE i \in 1..Len(Steps) : Steps[i] = s

\* where the job goes when step s has returned
After(s) == IF StepIndex(s) < Len(Steps) THEN Steps[StepIndex(s) + 1] ELSE "terminated"

\* the handler bound to on_failure only
CleanUpHooks_failure_only == {"on_failure"}

\* the hooks the decorators bind delete_subtraction to
CleanUpHooks == {"on_cancelled", "on_failure"}

\* path resolution that normalizes the id for the temporary path as well
ResolvedPaths_temp_normalized(jp) ==
  LET subtraction_path == Path("data", "subtractions", Normalize(jp.subtraction_id), "")
      temp_subtraction_path == Path("temp", "", Normalize(jp.subtraction_id), "")
  IN  [subtraction_path |-> subtraction_path,
       temp_subtraction_path |-> temp_subtraction_path,
       file_path |-> Path("data", "files", jp.file_id, ""),
       temp_fasta_path |-> Join(temp_subtraction_path, "subtraction.fa"),
       temp_index_path |-> Join(temp_subtraction_path, "reference")]

\* the paths check_db derives
ResolvedPaths(jp) ==
  LET subtraction_path == Path("data", "subtractions", Normalize(jp.subtraction_id), "")
      temp_subtraction_path == Path("temp", "", jp.subtraction_id, "")
  IN  [subtraction_path |-> subtraction_path,
       temp_subtraction_path |-> temp_subtraction_path,
       file_path |-> Path("data", "files", jp.file_id, ""),
       temp_fasta_path |-> Join(temp_subtraction_path, "subtraction.fa"),
       temp_index_path |-> Join(temp_subtraction_path, "reference")]

\* a ready flag that is written but not raised
ReadyFields_false == [ready |-> FALSE]

\* the fields bowtie_build sets once the subprocess has returned
ReadyFields == [ready |-> TRUE]

\* a stats update that leaves out the sequence count
StatsFields_gc_only == [gc |-> "gc"]

\* the fields set_stats sets
StatsFields == [gc |-> "gc", count |-> "count"]

\* the files bowtie2-build writes for an output prefix
IndexFiles(prefix) == {Join(prefix, "reference.1.bt2"), Join(prefix, "reference.rev.1.bt2")}

\* the cleanup handler as a function of the state it reads
delete_subtraction(f, d, jp, fault) ==
  IF "subtraction_path" \notin DOMAIN jp THEN [fs |-> f, db |-> d, err |-> "KeyError"]
  ELSE LET r == rm(f, jp.subtraction_path, TRUE, fault)
       IN  IF r.err \notin {"none", "FileNotFoundError"}
           THEN [fs |-> r.fs, db |-> d, err |-> r.err]
           ELSE [fs |-> r.fs, db |-> delete_one(d, jp.subtraction_id), err |-> "none"]

Init ==
  /\ pc = "startup_clean_up"
  /\ status = "Pending"
  /\ hooks = {}
  /\ \E id \in Ids :
       /\ job_params = [subtraction_id |-> id, file_id |-> FileId]
       /\ db = (id :> [ready |-> FALSE])
  /\ \E kind \in {"fasta", "gz"} : fs = (Path("data", "files", FileId, "") :> kind)
  /\ started = <<>>
  /\ completed = <<>>
  /\ cleanupRuns = 0
  /\ cleanupErr = "none"
  /\ bowtieExit = "none"
  /\ everReady = FALSE

\* a failure or a cancellation diverts the job to the cleanup path
Abort(kind) ==
  /\ status' = kind
  /\ pc' = "cleaning_up"

\* One awaited call of step `step`. can: the call's preconditions hold;
\* okFs, okDb: the state when the call returns; partFs, partDb: the states an
\* unfinished call can leave. A cancelled call is interrupted or finishes.
Await(outcome, step, first, last, mid, can, okFs, partFs, okDb, partDb) ==
  /\ started' = IF first THEN Append(started, step) ELSE started
  /\ \/ /\ outcome = "ok"
        /\ can
        /\ fs' = okFs
        /\ db' = okDb
        /\ completed' = IF last THEN Append(completed, step) ELSE completed
        /\ pc' = IF last THEN After(step) ELSE mid
        /\ status' = IF last /\ After(step) = "terminated" THEN "Succeeded" ELSE "Running"
     \/ /\ outcome = "error"
        /\ fs' \in partFs
        /\ db' \in partDb
        /\ completed' = completed
        /\ Abort("Failed")
     \/ /\ outcome = "cancel"
        /\ fs' \in partFs \cup (IF can THEN {okFs} ELSE {})
        /\ db' \in partDb \cup (IF can THEN {okDb} ELSE {})
        /\ completed' = completed
        /\ Abort("Cancelled")
  /\ everReady' = (everReady \/ IsReady(db'))
  /\ UNCHANGED <<hooks, job_params, cleanupRuns, cleanupErr>>

Outcomes == {"ok", "error", "cancel"}

\* ------------------------------------------------------------ startup hooks
clean_up ==
  /\ pc = "startup_clean_up"
  /\ hooks' = hooks \cup CleanUpHooks
  /\ status' = "Running"
  /\ pc' = "startup_check_db"
  /\ UNCHANGED <<job_params, fs, db, started, completed, cleanupRuns, cleanupErr,
                 bowtieExit, everReady>>

check_db ==
  /\ pc = "startup_check_db"
  /\ job_params' = ResolvedPaths(job_params) @@ job_params
  /\ pc' = Steps[1]
  /\ UNCHANGED <<status, hooks, fs, db, started, completed, cleanupRuns, cleanupErr,
                 bowtieExit, everReady>>

\* the job is cancelled after the cleanup handler is bound and before the
\* paths are resolved
cancel_startup ==
  /\ pc = "startup_check_db"
  /\ Abort("Cancelled")
  /\ UNCHANGED <<hooks, job_params, fs, db, started, completed, cleanupRuns, cleanupErr,
                 bowtieExit, everReady>>

\* ------------------------------------------------------------------- steps
\* make_subtraction_dir storing the directory it made back into job_params
make_subtraction_dir_rebinding ==
  /\ pc = "make_subtraction_dir"
  /\ fs' = makedirs(fs, job_params.temp_subtraction_path)
  /\ job_params' = [job_params EXCEPT !.temp_subtraction_path = Join(@, "made")]
  /\ started' = Append(started, "make_subtraction_dir")
  /\ completed' = Append(completed, "make_subtraction_dir")
  /\ pc' = After("make_subtraction_dir")
  /\ UNCHANGED <<status, hooks, db, cleanupRuns, cleanupErr, bowtieExit, everReady>>

make_subtraction_dir ==
  /\ pc = "make_subtraction_dir"
  /\ \E outcome \in Outcomes :
       Await(outcome, "make_subtraction_dir", TRUE, TRUE, "",
             TRUE,
             makedirs(fs, job_params.temp_subtraction_path), {fs},
             db, {db})
  /\ UNCHANGED bowtieExit

\* utils.copy_or_decompress(file_path, temp_fasta_path, n): the destination is
\* the uncompressed FASTA whether the upload is plain or gzipped
unpack ==
  /\ pc = "unpack"
  /\ \E outcome \in Outcomes :
       Await(outcome, "unpack", TRUE, TRUE, "",
             /\ job_params.file_path \in DOMAIN fs
             /\ job_params.temp_subtraction_path \in DOMAIN fs,
             Write(fs, job_params.temp_fasta_path, "fasta"),
             {fs} \cup (IF job_params.temp_subtraction_path \in DOMAIN fs
                        THEN {Write(fs, job_params.temp_fasta_path, "partial")} ELSE {}),
             db, {db})
  /\ UNCHANGED bowtieExit

\* gc, count = await utils.calculate_fasta_gc(temp_fasta_path)
set_stats_calculate ==
  /\ pc = "set_stats"
  /\ \E outcome \in Outcomes :
       Await(outcome, "set_stats", TRUE, FALSE, "set_stats_update",
             job_params.temp_fasta_path \in DOMAIN fs,
             fs, {fs}, db, {db})
  /\ UNCHANGED bowtieExit

set_stats_update ==
  /\ pc = "set_stats_update"
  /\ \E outcome \in Outcomes :
       Await(outcome, "set_stats", FALSE, TRUE, "",
             TRUE,
             fs, {fs},
             update_one(db, job_params.subtraction_id, StatsFields), {db})
  /\ UNCHANGED bowtieExit

set_stats == set_stats_calculate \/ set_stats_update

\* bowtie_build going on to the update whatever the exit status
bowtie_build_run_unchecked ==
  /\ pc = "bowtie_build"
  /\ \E exit \in {"ok", "fail"} :
       /\ bowtieExit' = exit
       /\ fs' = IF exit = "ok"
                THEN [p \in (DOMAIN fs) \cup IndexFiles(job_params.temp_index_path) |->
                        IF p \in IndexFiles(job_params.temp_index_path) THEN "index" ELSE fs[p]]
                ELSE fs
  /\ started' = Append(started, "bowtie_build")
  /\ pc' = "bowtie_build_update"
  /\ UNCHANGED <<status, hooks, job_params, db, completed, cleanupRuns, cleanupErr, everReady>>

\* await run_subprocess(["bowtie2-build", "-f", ..., temp_fasta_path, temp_index_path]):
\* a non-zero exit raises and the update below is not reached
bowtie_build_run ==
  /\ pc = "bowtie_build"
  /\ LET okFs == [p \in (DOMAIN fs) \cup IndexFiles(job_params.temp_index_path) |->
                    IF p \in IndexFiles(job_params.temp_index_path) THEN "index" ELSE fs[p]]
     IN  \E outcome \in Outcomes :
           /\ Await(outcome, "bowtie_build", TRUE, FALSE, "bowtie_build_update",
                    /\ job_params.temp_fasta_path \in DOMAIN fs
                    /\ fs[job_params.temp_fasta_path] = "fasta",
                    okFs,
                    {fs} \cup {Write(fs, p, "partial") : p \in IndexFiles(job_params.temp_index_path)},
                    db, {db})
           /\ bowtieExit' = IF outcome = "error" THEN "fail"
                            ELSE IF fs' = okFs THEN "ok" ELSE "none"

bowtie_build_update ==
  /\ pc = "bowtie_build_update"
  /\ \E outcome \in Outcomes :
       Await(outcome, "bowtie_build", FALSE, TRUE, "",
             TRUE,
             fs, {fs},
             update_one(db, job_params.subtraction_id, ReadyFields), {db})
  /\ UNCHANGED bowtieExit

bowtie_build == bowtie_build_run \/ bowtie_build_update

\* compress_file(temp_fasta_path, temp_fasta_path + ".gz", n)
compress_file ==
  /\ pc = "compress"
  /\ LET gz == Join(job_params.temp_fasta_path, "subtraction.fa.gz")
     IN  \E outcome \in Outcomes :
           Await(outcome, "compress", TRUE, FALSE, "compress_rm",
                 job_params.temp_fasta_path \in DOMAIN fs,
                 Write(fs, gz, "gz"), {fs, Write(fs, gz, "partial")},
                 db, {db})
  /\ UNCHANGED bowtieExit

\* rm(temp_fasta_path): not recursive, and nothing catches what it raises
compress_rm ==
  /\ pc = "compress_rm"
  /\ \E outcome \in Outcomes :
       Await(outcome, "compress", FALSE, FALSE, "compress_copytree",
             rm(fs, job_params.temp_fasta_path, FALSE, FALSE).err = "none",
             rm(fs, job_params.temp_fasta_path, FALSE, FALSE).fs, {fs},
             db, {db})
  /\ UNCHANGED bowtieExit

\* shutil.copytree(temp_subtraction_path, subtraction_path): raises if the
\* destination exists; an unfinished copy leaves the destination with some
\* of the files
compress_copytree ==
  /\ pc = "compress_copytree"
  /\ LET src == job_params.temp_subtraction_path
         dst == job_params.subtraction_path
         can == src \in DOMAIN fs /\ Tree(fs, dst) = {}
     IN  \E outcome \in Outcomes :
           Await(outcome, "compress", FALSE, TRUE, "",
                 can,
                 copytree(fs, src, dst),
                 {fs} \cup (IF can
                            THEN {CopyInto(fs, src, dst, S) : S \in (SUBSET Children(fs, src)) \ {Children(fs, src)}}
                            ELSE {}),
                 db, {db})
  /\ UNCHANGED bowtieExit

compress == compress_file \/ compress_rm \/ compress_copytree

\* ------------------------------------------------------------ cleanup path
HookOf(s) == IF s = "Failed" THEN "on_failure" ELSE "on_cancelled"

\* the runtime triggers the hook of the terminal state; what the handler
\* raises is recorded and the job terminates either way
trigger_hooks ==
  /\ pc = "cleaning_up"
  /\ IF HookOf(status) \in hooks
     THEN \E fault \in BOOLEAN :
            LET r == delete_subtraction(fs, db, job_params, fault)
            IN  /\ fs' = r.fs
                /\ db' = r.db
                /\ cleanupErr' = r.err
                /\ cleanupRuns' = cleanupRuns + 1
     ELSE UNCHANGED <<fs, db, cleanupErr, cleanupRuns>>
  /\ pc' = "terminated"
  /\ UNCHANGED <<status, hooks, job_params, started, completed, bowtieExit, everReady>>

Next ==
  \/ clean_up
  \/ check_db
  \/ cancel_startup
  \/ make_subtraction_dir
  \/ unpack
  \/ set_stats
  \/ bowtie_build
  \/ compress
  \/ trigger_hooks

Spec == Init /\ [][Next]_vars

\* what a job with id o that ran to success has left: its working directory,
\* its final directory and its document
FinishedJobFiles(o) ==
  LET tmp == Path("temp", "", o, "")
      fin == Path("data", "subtractions", Normalize(o), "")
      names == {"subtraction.fa.gz", "reference.1.bt2", "reference.rev.1.bt2"}
      kind(n) == IF n = "subtraction.fa.gz" THEN "gz" ELSE "index"
  IN  [p \in {tmp, fin} \cup {Join(tmp, n) : n \in names} \cup {Join(fin, n) : n \in names} |->
         IF p.name = "" THEN "dir" ELSE kind(p.name)]

\* the job starts when another job, with a different subtraction id, has
\* already run to success
InitTwo ==
  /\ pc = "startup_clean_up"
  /\ status = "Pending"
  /\ hooks = {}
  /\ \E id \in Ids : \E o \in Ids \ {id} : \E kind \in {"fasta", "gz"} :
       /\ job_params = [subtraction_id |-> id, file_id |-> FileId]
       /\ db = (id :> [ready |-> FALSE]) @@ (o :> [ready |-> TRUE, gc |-> "gc", count |-> "count"])
       /\ fs = (Path("data", "files", FileId, "") :> kind) @@ FinishedJobFiles(o)
  /\ started = <<>>
  /\ completed = <<>>
  /\ cleanupRuns = 0
  /\ cleanupErr = "none"
  /\ bowtieExit = "none"
  /\ everReady = TRUE

SpecTwo == InitTwo /\ [][Next]_vars

\* Something other than the job removes the working FASTA after it has been
\* compressed and before compress removes it.
external_rm ==
  /\ pc = "compress_rm"
  /\ job_params.temp_fasta_path \in DOMAIN fs
  /\ fs' = Remove(fs, {job_params.temp_fasta_path})
  /\ UNCHANGED <<pc, status, hooks, job_params, db, started, completed, cleanupRuns,
                 cleanupErr, bowtieExit, everReady>>

NextExt == Next \/ external_rm

\* the job in an environment that can remove the working FASTA
SpecExt == Init /\ [][NextExt]_vars

\* ------------------------------------------------------------- properties
Terminated == pc = "terminated"

Aborted == status \in {"Failed", "Cancelled"}

Resolved == "subtraction_path" \in DOMAIN job_params

\* the entries of the final directory of any subtraction
FinalEntries == {p \in DOMAIN fs : p.root = "data" /\ p.sub = "subtractions"}

\* the entries of the working directory of any subtraction
WorkingEntries == {p \in DOMAIN fs : p.root = "temp"}

DeclaredOrder == <<"make_subtraction_dir", "unpack", "set_stats", "bowtie_build", "compress">>

IsPrefix(s, t) == Len(s) <= Len(t) /\ \A i \in 1..Len(s) : s[i] = t[i]

\* C1: delete_subtraction runs exactly once when the job ends by a step
\* failure or by cancellation, and not at all when the five steps all
\* return; it has never run more than once, nor before the job is diverted.
C1_CleanupExactlyOnce ==
  /\ cleanupRuns <= 1
  /\ (cleanupRuns = 1) => (Aborted /\ Terminated)
  /\ Terminated =>
       /\ Aborted => cleanupRuns = 1
       /\ status = "Succeeded" => cleanupRuns = 0
       /\ completed = DeclaredOrder => (status = "Succeeded" /\ cleanupRuns = 0)
       /\ Aborted \/ (status = "Succeeded" /\ completed = DeclaredOrder)

\* a job cancelled inside a step has terminated after one run of the handler
C1_Witness ==
  /\ Terminated
  /\ status = "Cancelled"
  /\ started # <<>>
  /\ cleanupRuns = 1

\* C2: a document has ready=true only if bowtie2-build has exited
\* successfully and its index files are on disk; when the subprocess failed
\* or was interrupted, ready=true has never been written.
C2_ReadyOnlyAfterIndex ==
  /\ \A i \in DOMAIN db :
       db[i].ready =>
         /\ bowtieExit = "ok"
         /\ Resolved
         /\ \A p \in IndexFiles(job_params.temp_index_path) :
              p \in DOMAIN fs /\ fs[p] = "index"
  /\ everReady => bowtieExit = "ok"

\* the document is ready and the job has moved on to compress
C2_Witness ==
  /\ pc = "compress"
  /\ bowtieExit = "ok"
  /\ job_params.subtraction_id \in DOMAIN db
  /\ db[job_params.subtraction_id].ready

\* C3: once a job that failed or was cancelled in a step has terminated, no
\* document with _id = subtraction_id is left, whatever the removal of the
\* directory did.
C3_RecordDeletedOnAbort ==
  (Terminated /\ Aborted /\ started # <<>>) =>
    job_params.subtraction_id \notin DOMAIN db

\* C4: once a job that failed or was cancelled after make_subtraction_dir
\* returned has terminated, the working directory is gone.
C4_WorkingDirRemovedOnAbort ==
  (Terminated /\ Aborted /\ completed # <<>>) =>
    job_params.temp_subtraction_path \notin DOMAIN fs

\* C5: once a job that failed or was cancelled has terminated, nothing exists
\* at or below the final directory.
C5_NoFinalDirOnAbort ==
  (Terminated /\ Aborted) => FinalEntries = {}

\* C6: the subtraction's files are never in the working directory and in the
\* final directory at once, and after a successful run the working directory
\* holds none of them.
C6_WorkingAndFinalExclusive ==
  /\ ~(\E p \in WorkingEntries : p.name # "") \/ FinalEntries = {}
  /\ (Terminated /\ status = "Succeeded") => ~(\E p \in WorkingEntries : p.name # "")

\* C7: whenever anything exists at or below the final directory, the
\* subtraction document exists and has ready=true.
C7_FinalDirImpliesReady ==
  FinalEntries # {} =>
    /\ job_params.subtraction_id \in DOMAIN db
    /\ db[job_params.subtraction_id].ready

\* a copy into the final directory was cut short and the job is about to
\* clean up
C7_Witness ==
  /\ pc = "cleaning_up"
  /\ FinalEntries # {}
  /\ Cardinality(FinalEntries) < 4
  /\ db[job_params.subtraction_id].ready

\* C8 (state part): the steps start in the declared order, at most one step
\* has started and not returned, a step is at an await only when every
\* earlier step has returned, and a failed or cancelled job is on the cleanup
\* path.
C8_OrderInv ==
  /\ IsPrefix(started, DeclaredOrder)
  /\ IsPrefix(completed, started)
  /\ Len(started) - Len(completed) <= 1
  /\ (Len(started) > Len(completed)) =>
       (Aborted \/ pc \in {"set_stats_update", "bowtie_build_update", "compress_rm",
                           "compress_copytree"})
  /\ Aborted => pc \in {"cleaning_up", "terminated"}
  /\ (Aborted /\ Terminated) => cleanupRuns = 1

\* C8: the steps run strictly in the declared order without overlapping, and
\* once a step has failed or the job was cancelled no step is started or
\* completed any more and the cleanup path is taken.
C8_StepsInOrder ==
  /\ []C8_OrderInv
  /\ [][Aborted => (started' = started /\ completed' = completed /\ Aborted')]_vars
  /\ [][(started' # started) => (Len(completed) = Len(started) /\ ~Aborted)]_vars

\* set_stats failed: two steps returned, the third started, none after it
C8_Witness ==
  /\ Terminated
  /\ status = "Failed"
  /\ started = <<"make_subtraction_dir", "unpack", "set_stats">>
  /\ completed = <<"make_subtraction_dir", "unpack">>

\* C9: from any state in which the cleanup handler is about to run, running
\* it twice in a row raises nothing the second time and the second run leaves
\* the filesystem and the database as the first run left them.
C9_CleanupIdempotent ==
  pc = "cleaning_up" =>
    \A f1, f2 \in BOOLEAN :
      LET r1 == delete_subtraction(fs, db, job_params, f1)
          r2 == delete_subtraction(r1.fs, r1.db, job_params, f2)
      IN  r2.err = "none" /\ r2.fs = r1.fs /\ r2.db = r1.db

\* C10: a job that ends failed or cancelled has at no point had its document
\* in the database with ready=true.
C10_NeverReadyOnAbort ==
  Aborted => ~everReady

\* C11: check_db replaces spaces by underscores and lower-cases the id only
\* in the permanent path; the temporary paths carry the id unchanged, and the
\* documents that are updated and deleted are those under the id unchanged.
C11_NormalizeOnlyPermanent ==
  Resolved =>
    LET id == job_params.subtraction_id
        norm == job_params.subtraction_path.id
    IN  /\ job_params.subtraction_path.root = "data"
        /\ job_params.subtraction_path.sub = "subtractions"
        /\ Len(norm) = Len(id)
        /\ \A i \in 1..Len(id) :
             norm[i] = (IF id[i] = " " THEN "_" ELSE IF id[i] = "A" THEN "a" ELSE id[i])
        /\ job_params.temp_subtraction_path = [root |-> "temp", sub |-> "", id |-> id, name |-> ""]
        /\ job_params.temp_fasta_path.id = id
        /\ job_params.temp_index_path.id = id
        /\ \A p \in WorkingEntries : p.id = id
        /\ \A p \in FinalEntries : p.id = norm
        /\ DOMAIN db \subseteq {id}
        /\ (Len(completed) >= 3 /\ id \in DOMAIN db) => "gc" \in DOMAIN db[id]
        /\ (Terminated /\ Aborted /\ cleanupErr = "none") => id \notin DOMAIN db

\* a job whose id has an upper-case letter and a space has succeeded
C11_Witness ==
  /\ Terminated
  /\ status = "Succeeded"
  /\ job_params.subtraction_id = <<"A", " ">>
  /\ job_params.subtraction_path.id = <<"a", "_">>
  /\ FinalEntries # {}

\* C12: when the working FASTA is already absent as compress comes to remove
\* it, the removal is a no-op that does not fail: the step can go on to the
\* copy with the filesystem as it is.
C12_RmToleratesAbsent ==
  (pc = "compress_rm" /\ job_params.temp_fasta_path \notin DOMAIN fs) =>
    ENABLED (compress_rm /\ pc' = "compress_copytree" /\ fs' = fs)

\* C13: whatever way the removal of the directory fails inside
\* delete_subtraction, the handler swallows the failure and returns normally.
C13_RemovalFailureSwallowed ==
  cleanupRuns > 0 => cleanupErr \notin {"OSError", "FileNotFoundError", "IsADirectoryError"}

\* C14: a job that is cancelled or fails after the handler was bound and
\* before the paths were resolved still gets a cleanup run that completes
\* and deletes the subtraction document.
C14_CleanupWithoutPaths ==
  (Terminated /\ Aborted /\ hooks # {} /\ ~Resolved) =>
    /\ cleanupRuns = 1
    /\ cleanupErr = "none"
    /\ job_params.subtraction_id \notin DOMAIN db

\* the ids of the documents of other jobs
OtherIds == (DOMAIN db) \ {job_params.subtraction_id}

\* nothing at or below directory d is created, overwritten or deleted
TreeUntouched(d) ==
  /\ Tree(fs', d) = Tree(fs, d)
  /\ \A p \in Tree(fs, d) : fs'[p] = fs[p]

\* C16: no step of a job and no run of its cleanup handler creates, writes or
\* deletes the working directory, the final directory or the document of a
\* job with a different subtraction id.
C16_JobsDisjoint ==
  [][\A o \in OtherIds :
       /\ o \in DOMAIN db'
       /\ db'[o] = db[o]
       /\ TreeUntouched(Path("temp", "", o, ""))
       /\ TreeUntouched(Path("data", "subtractions", Normalize(o), ""))]_vars

PathKeys == {"subtraction_path", "temp_subtraction_path", "file_path", "temp_fasta_path",
             "temp_index_path"}

\* C17: the five path entries of job_params are written by check_db and by
\* nothing else: every step and the cleanup handler leave them, and
\* subtraction_id and file_id, as they are; check_db adds the five entries and
\* keeps the two ids.
C17_PathsWrittenOnce ==
  [][/\ (pc # "startup_check_db") => (job_params' = job_params)
     /\ (job_params' # job_params) =>
          /\ DOMAIN job_params = {"subtraction_id", "file_id"}
          /\ DOMAIN job_params' = PathKeys \cup {"subtraction_id", "file_id"}
          /\ job_params'.subtraction_id = job_params.subtraction_id
          /\ job_params'.file_id = job_params.file_id]_vars

\* steps and the handler have run and the entries are those of check_db
C17_Witness ==
  /\ Terminated
  /\ cleanupRuns = 1
  /\ Len(completed) >= 4
  /\ DOMAIN job_params = PathKeys \cup {"subtraction_id", "file_id"}
  /\ job_params.temp_fasta_path = Join(job_params.temp_subtraction_path, "subtraction.fa")

\* C18: a document with ready=true already has the gc and count fields that
\* set_stats writes; ready is not set on a document whose stats update did
\* not happen.
C18_StatsBeforeReady ==
  \A i \in DOMAIN db :
    db[i].ready => ("gc" \in DOMAIN db[i] /\ "count" \in DOMAIN db[i])

\* the document has been marked ready after its stats were written
C18_Witness ==
  /\ pc = "compress_copytree"
  /\ db[job_params.subtraction_id].ready
  /\ {"gc", "count"} \subseteq DOMAIN db[job_params.subtraction_id]

\* C19: when all steps have succeeded the document is there with ready=true,
\* and the final directory holds the compressed FASTA and the index files and
\* no uncompressed subtraction.fa.
C19_SuccessState ==
  (Terminated /\ status = "Succeeded") =>
    LET id == job_params.subtraction_id
        fin == job_params.subtraction_path
    IN  /\ id \in DOMAIN db
        /\ db[id].ready
        /\ fin \in DOMAIN fs
        /\ {p.name : p \in Children(fs, fin)} =
             {"subtraction.fa.gz", "reference.1.bt2", "reference.rev.1.bt2"}
        /\ fs[Join(fin, "subtraction.fa.gz")] = "gz"
        /\ fs[Join(fin, "reference.1.bt2")] = "index"
        /\ fs[Join(fin, "reference.rev.1.bt2")] = "index"
        /\ Join(fin, "subtraction.fa") \notin DOMAIN fs

\* a gzipped upload has gone through all five steps
C19_Witness ==
  /\ Terminated
  /\ status = "Succeeded"
  /\ completed = DeclaredOrder
  /\ fs[job_params.file_path] = "gz"
  /\ Join(job_params.subtraction_path, "subtraction.fa.gz") \in DOMAIN fs
====
